---- MODULE Spec2Model ----
(***************************************************************************)
(* Data-access layer of the animal shop: the raw-SQL DAOs (app/dao.py),    *)
(* the ORM DAOs (app/dao_models.py) and the self-serving entities          *)
(* (app/models.py), all working on the same four tables.                   *)
(*                                                                         *)
(* A table is a function from primary keys to rows; a row is the tuple of  *)
(* its columns in declaration order.  Every column but the primary key is  *)
(* nullable: its value is NULL (<<>>) or the one-element tuple <<v>>, and  *)
(* so is every Python value that may be None.  A call's outcome is either  *)
(* a returned value or a raised exception.                                 *)
(***************************************************************************)
EXTENDS Integers, Sequences, FiniteSets, TLC

VARIABLES animal, species, animal_center, access_request, clock, last,
          pc, own, ret

vars == <<animal, species, animal_center, access_request, clock, last,
          pc, own, ret>>

(* ------------------------------ bounds -------------------------------- *)

\* largest animal id the model lets an insert assign
MaxAnimalId == 2
\* largest species id the model lets an insert assign
MaxSpeciesId == 2
\* number of access-request rows the model lets be inserted
MaxRequests == 2
\* last instant of the model's clock
MaxClock == 1

(* --------------------------- Python values ---------------------------- *)

NULL == <<>>
Some(v) == <<v>>

Return(v) == [kind |-> "return", value |-> v]
\* a Python 2-tuple
Pair(a, b) == [fst |-> a, snd |-> b]
Raise(e) == [kind |-> "raise", exc |-> e]

Impl == {"sql", "orm", "entity"}

(* ------------------------------ tables -------------------------------- *)

MaxKey(tbl) == CHOOSE m \in DOMAIN tbl : \A k \in DOMAIN tbl : k <= m

\* INTEGER PRIMARY KEY: an insert without an id takes the largest key plus one
NextKey(tbl) == IF DOMAIN tbl = {} THEN 1 ELSE MaxKey(tbl) + 1

\* the application checks no foreign key before it inserts, nor does this
InsertRow(tbl, key, row) ==
    [k \in DOMAIN tbl \cup {key} |-> IF k = key THEN row ELSE tbl[k]]

DeleteRow(tbl, key) == [k \in DOMAIN tbl \ {key} |-> tbl[k]]

RECURSIVE RowsOf(_, _)
\* the rows of tbl with a key in keys, as a result set in key order
RowsOf(tbl, keys) ==
    IF keys = {} THEN <<>>
    ELSE LET k == CHOOSE m \in keys : \A j \in keys : m <= j
         IN <<tbl[k]>> \o RowsOf(tbl, keys \ {k})

\* .first() of "SELECT * FROM tbl WHERE id=key" and Query.get(key)
FirstById(tbl, key) == IF key \in DOMAIN tbl THEN Some(tbl[key]) ELSE NULL

(* --------------------------- animal: columns -------------------------- *)

\* column positions of the animal table, in declaration order
AnimalCol ==
    [id |-> 1, center_id |-> 2, name |-> 3, description |-> 4, age |-> 5,
     species_id |-> 6, price |-> 7]

\* the mapped entity loaded from a row: one attribute per column
AnimalEntity(row) ==
    [id |-> row[1], center_id |-> row[2], name |-> row[3],
     description |-> row[4], age |-> row[5], species_id |-> row[6],
     price |-> row[7]]

\* the row an entity is flushed to
AnimalRow(e) ==
    <<e.id, e.center_id, e.name, e.description, e.age, e.species_id, e.price>>

AnimalsWhere(tbl, col, v) ==
    {k \in DOMAIN tbl : tbl[k][AnimalCol[col]] = Some(v)}

(* ----------------------- SQL text of a Python value ------------------- *)

\* "'{}'".format(v) as the statement carries it: None is the text 'None'
Quoted(v) == IF v = NULL THEN Some("None") ELSE v

\* "{}".format(v) is a literal only for a value; None reads as an identifier
BareOk(v) == v # NULL

(* ------------------------- raw SQL: AnimalsDAO ------------------------ *)

AnimalsDAO_deserialize(record, long) ==
    IF long
    THEN [id |-> record[1], name |-> record[3], center_id |-> record[2],
          description |-> record[4], age |-> record[5],
          species_id |-> record[6], price |-> record[7]]
    ELSE [id |-> record[1], name |-> record[3]]

AnimalsDAO_short(record) == AnimalsDAO_deserialize(record, FALSE)

AnimalsDAO_get_animal(tbl, animal_id) ==
    LET record == FirstById(tbl, animal_id)
    IN IF record # NULL
       THEN Return(Some(AnimalsDAO_deserialize(record[1], TRUE)))
       ELSE Return(NULL)

\* DELETE ... WHERE id=animal_id: no row matched, no row deleted
AnimalsDAO_delete_animal(tbl, animal_id) ==
    [result |-> Return(NULL), animal |-> DeleteRow(tbl, animal_id)]

\* the row after "SET key='value', ..." for the keys of the mapping m
SetColumns(row, m, keys) ==
    [i \in 1..7 |->
        IF \E k \in keys : AnimalCol[k] = i
        THEN Quoted(m[CHOOSE k \in keys : AnimalCol[k] = i])
        ELSE row[i]]

\* animal_arg is the first argument: NULL when the caller leaves it out;
\* data_upd and animal_id are declared and never read
AnimalsDAO_update_animal(tbl, animal_arg, data_upd, animal_id) ==
    IF animal_arg = NULL
    THEN [result |-> Raise("AttributeError"), animal |-> tbl]
    ELSE LET m == animal_arg[1]
             keys == DOMAIN m \ {"id"}
         IN IF "id" \notin DOMAIN m
            THEN [result |-> Raise("KeyError"), animal |-> tbl]
            ELSE IF keys = {}
            THEN [result |-> Raise("OperationalError"), animal |-> tbl]
            ELSE [result |-> Return(NULL),
                  animal |-> [k \in DOMAIN tbl |->
                                 IF k = m.id THEN SetColumns(tbl[k], m, keys)
                                 ELSE tbl[k]]]

\* the INSERT of add_animal: price, species_id and age go in bare
AnimalsDAO_add_insert(tbl, data, userid) ==
    IF ~(BareOk(data.price) /\ BareOk(data.species_id) /\ BareOk(data.age))
    THEN [result |-> Raise("OperationalError"), animal |-> tbl]
    ELSE [result |-> Return(NULL),
          animal |-> InsertRow(tbl, NextKey(tbl),
                        <<NextKey(tbl), Some(userid), Quoted(data.name),
                          Quoted(data.description), data.age,
                          data.species_id, data.price>>)]

\* the SELECT of add_animal: the row with MAX(id), in short form
AnimalsDAO_add_select(tbl) ==
    IF DOMAIN tbl = {}
    THEN Raise("TypeError")
    ELSE Return(Some(AnimalsDAO_deserialize(tbl[MaxKey(tbl)], FALSE)))

AnimalsDAO_add_animal(tbl, data, userid) ==
    LET ins == AnimalsDAO_add_insert(tbl, data, userid)
    IN IF ins.result.kind = "raise" THEN ins
       ELSE [result |-> AnimalsDAO_add_select(ins.animal),
             animal |-> ins.animal]

(* --------------------------- ORM: AnimalORM --------------------------- *)

AnimalORM_deserialize(record, long) ==
    IF long
    THEN [id |-> record.id, name |-> record.name,
          center_id |-> record.center_id,
          description |-> record.description, age |-> record.age,
          species_id |-> record.species_id, price |-> record.price]
    ELSE [id |-> record.id, name |-> record.name]

AnimalORM_short(record) == AnimalORM_deserialize(record, FALSE)

\* Animal.query.get(animal_id): the entity, or None
AnimalQueryGet(tbl, animal_id) ==
    IF animal_id \in DOMAIN tbl THEN Some(AnimalEntity(tbl[animal_id]))
    ELSE NULL

AnimalORM_get_animal(tbl, animal_id) ==
    LET a == AnimalQueryGet(tbl, animal_id)
    IN IF a # NULL THEN Return(Some(AnimalORM_deserialize(a[1], TRUE)))
       ELSE Return(NULL)

\* db.session.delete(None) raises before anything is staged
AnimalORM_delete_animal(tbl, animal_id) ==
    LET a == AnimalQueryGet(tbl, animal_id)
    IN IF a = NULL
       THEN [result |-> Raise("UnmappedInstanceError"), animal |-> tbl]
       ELSE [result |-> Return(NULL), animal |-> DeleteRow(tbl, animal_id)]

\* setattr(animal, key, value) for every item of data_upd
SetAttrs(e, data_upd) ==
    [f \in DOMAIN e |-> IF f \in DOMAIN data_upd THEN data_upd[f] ELSE e[f]]

AnimalORM_update_animal(tbl, animal_arg, data_upd, animal_id) ==
    LET a == AnimalQueryGet(tbl, animal_id)
    IN IF a = NULL
       THEN IF DOMAIN data_upd = {}
            THEN [result |-> Return(NULL), animal |-> tbl]
            ELSE [result |-> Raise("AttributeError"), animal |-> tbl]
       ELSE [result |-> Return(NULL),
             animal |-> [tbl EXCEPT
                           ![animal_id] = AnimalRow(SetAttrs(a[1], data_upd))]]

\* session.add + commit: the flush inserts the row and learns its key
AnimalORM_add_commit(tbl, data, userid) ==
    InsertRow(tbl, NextKey(tbl),
        <<NextKey(tbl), Some(userid), data.name, data.description, data.age,
          data.species_id, data.price>>)

\* the fault C10 excludes: the ORM add reading back the row with MAX(id)
AnimalORM_add_return_MaxId(tbl, key) ==
    IF DOMAIN tbl = {} THEN Raise("TypeError")
    ELSE Return(Some(AnimalORM_deserialize(AnimalEntity(tbl[MaxKey(tbl)]),
                                           FALSE)))

\* deserialize(animal) after the commit reloads the object by its own key
AnimalORM_add_return(tbl, key) ==
    LET a == AnimalQueryGet(tbl, key)
    IN IF a = NULL THEN Raise("ObjectDeletedError")
       ELSE Return(Some(AnimalORM_deserialize(a[1], FALSE)))

AnimalORM_add_animal(tbl, data, userid) ==
    LET t == AnimalORM_add_commit(tbl, data, userid)
    IN [result |-> AnimalORM_add_return(t, NextKey(tbl)), animal |-> t]

(* --------------------------- entity: Animal --------------------------- *)

Animal_deserialize(self, long) ==
    IF long
    THEN [id |-> self.id, name |-> self.name, center_id |-> self.center_id,
          description |-> self.description, age |-> self.age,
          species_id |-> self.species_id, price |-> self.price]
    ELSE [id |-> self.id, name |-> self.name]

Animal_long(self) == Animal_deserialize(self, TRUE)

\* no check of the query's result: None.deserialize raises
Animal_get_animal(tbl, animal_id) ==
    LET a == AnimalQueryGet(tbl, animal_id)
    IN IF a = NULL THEN Raise("AttributeError")
       ELSE Return(Some(Animal_deserialize(a[1], TRUE)))

Animal_delete_animal(tbl, animal_id) ==
    LET a == AnimalQueryGet(tbl, animal_id)
    IN IF a = NULL
       THEN [result |-> Raise("UnmappedInstanceError"), animal |-> tbl]
       ELSE [result |-> Return(NULL), animal |-> DeleteRow(tbl, animal_id)]

Animal_update_animal(tbl, animal_arg, data_upd, animal_id) ==
    LET a == AnimalQueryGet(tbl, animal_id)
    IN IF a = NULL
       THEN IF DOMAIN data_upd = {}
            THEN [result |-> Return(NULL), animal |-> tbl]
            ELSE [result |-> Raise("AttributeError"), animal |-> tbl]
       ELSE [result |-> Return(NULL),
             animal |-> [tbl EXCEPT
                           ![animal_id] = AnimalRow(SetAttrs(a[1], data_upd))]]

Animal_add_animal(tbl, data, userid) ==
    LET t == InsertRow(tbl, NextKey(tbl),
                 <<NextKey(tbl), Some(userid), data.name, data.description,
                   data.age, data.species_id, data.price>>)
    IN [result |->
            Return(Some(Animal_deserialize(AnimalEntity(t[NextKey(tbl)]),
                                           FALSE))),
        animal |-> t]

(* ------------------- the Animal capability, by component -------------- *)

get_animal(impl, tbl, animal_id) ==
    CASE impl = "sql" -> AnimalsDAO_get_animal(tbl, animal_id)
      [] impl = "orm" -> AnimalORM_get_animal(tbl, animal_id)
      [] impl = "entity" -> Animal_get_animal(tbl, animal_id)

delete_animal(impl, tbl, animal_id) ==
    CASE impl = "sql" -> AnimalsDAO_delete_animal(tbl, animal_id)
      [] impl = "orm" -> AnimalORM_delete_animal(tbl, animal_id)
      [] impl = "entity" -> Animal_delete_animal(tbl, animal_id)

update_animal(impl, tbl, animal_arg, data_upd, animal_id) ==
    CASE impl = "sql" ->
            AnimalsDAO_update_animal(tbl, animal_arg, data_upd, animal_id)
      [] impl = "orm" ->
            AnimalORM_update_animal(tbl, animal_arg, data_upd, animal_id)
      [] impl = "entity" ->
            Animal_update_animal(tbl, animal_arg, data_upd, animal_id)

add_animal(impl, tbl, data, userid) ==
    CASE impl = "sql" -> AnimalsDAO_add_animal(tbl, data, userid)
      [] impl = "orm" -> AnimalORM_add_animal(tbl, data, userid)
      [] impl = "entity" -> Animal_add_animal(tbl, data, userid)

(* --------------------------- species: rows ---------------------------- *)

\* the mapped entity of a species row <<id, name, description, price>>
SpeciesEntity(row) ==
    [id |-> row[1], name |-> row[2], description |-> row[3],
     price |-> row[4]]

\* count(animal.name) over the animals joined to species key: NULL names
\* are not counted
CountAnimals(animals, key) ==
    Cardinality({a \in AnimalsWhere(animals, "species_id", key) :
                    animals[a][AnimalCol.name] # NULL})

RECURSIVE SumCounts(_, _)
SumCounts(animals, keys) ==
    IF keys = {} THEN 0
    ELSE LET k == CHOOSE m \in keys : TRUE
         IN CountAnimals(animals, k) + SumCounts(animals, keys \ {k})

(* ------------------------- raw SQL: SpeciesDAO ------------------------ *)

SpeciesDAO_deserialize(record, long) ==
    IF long
    THEN [id |-> record[1], name |-> record[2], description |-> record[3],
          price |-> record[4]]
    ELSE [species_name |-> record[1], count_of_animals |-> record[2]]

SpeciesDAO_short(record) == SpeciesDAO_deserialize(record, FALSE)

\* the species keys that stand for a GROUP BY species.name group: the
\* smallest key of every name
NameGroups(tbl) ==
    {k \in DOMAIN tbl : \A j \in DOMAIN tbl : tbl[j][2] = tbl[k][2] => k <= j}

\* one result row <<name, count>> per species name
SpeciesDAO_group(tbl, animals, k) ==
    <<tbl[k][2],
      SumCounts(animals, {j \in DOMAIN tbl : tbl[j][2] = tbl[k][2]})>>

SpeciesDAO_get_species(tbl, animals) ==
    LET groups == [k \in NameGroups(tbl) |-> SpeciesDAO_group(tbl, animals, k)]
        records == RowsOf(groups, NameGroups(tbl))
    IN Return([i \in 1..Len(records) |-> SpeciesDAO_short(records[i])])

\* the fault C9 excludes: a species without animals reads as no species
SpeciesDAO_get_species_inform_NeedsAnimals(tbl, animals, id) ==
    LET record == FirstById(tbl, id)
        rows == RowsOf(animals, AnimalsWhere(animals, "species_id", id))
    IN IF record # NULL /\ rows # <<>>
       THEN Return(Some(Pair(SpeciesDAO_deserialize(record[1], TRUE),
                             [i \in 1..Len(rows) |->
                                 AnimalsDAO_short(rows[i])])))
       ELSE Return(NULL)

SpeciesDAO_get_species_inform(tbl, animals, id) ==
    LET record == FirstById(tbl, id)
        rows == RowsOf(animals, AnimalsWhere(animals, "species_id", id))
    IN IF record # NULL
       THEN Return(Some(Pair(SpeciesDAO_deserialize(record[1], TRUE),
                             [i \in 1..Len(rows) |->
                                 AnimalsDAO_short(rows[i])])))
       ELSE Return(NULL)

\* the INSERT of add_species: price goes in bare
SpeciesDAO_add_insert(tbl, data) ==
    IF ~BareOk(data.price)
    THEN [result |-> Raise("OperationalError"), species |-> tbl]
    ELSE [result |-> Return(NULL),
          species |-> InsertRow(tbl, NextKey(tbl),
                         <<NextKey(tbl), Quoted(data.name),
                           Quoted(data.description), data.price>>)]

\* the SELECT of add_species: the row with MAX(id), in long form
SpeciesDAO_add_select(tbl) ==
    IF DOMAIN tbl = {}
    THEN Raise("TypeError")
    ELSE Return(Some(SpeciesDAO_deserialize(tbl[MaxKey(tbl)], TRUE)))

SpeciesDAO_add_species(tbl, data) ==
    LET ins == SpeciesDAO_add_insert(tbl, data)
    IN IF ins.result.kind = "raise" THEN ins
       ELSE [result |-> SpeciesDAO_add_select(ins.species),
             species |-> ins.species]

(* --------------------- ORM: SpeciesORM, entity: Species --------------- *)

\* only the long branch binds data
SpeciesORM_deserialize(record, long) ==
    CASE long -> [id |-> record.id, name |-> record.name,
                  description |-> record.description, price |-> record.price]

Species_deserialize(self, long) ==
    CASE long -> [id |-> self.id, name |-> self.name,
                  description |-> self.description, price |-> self.price]

\* group_by(Species.id): one entry per species row
SpeciesORM_entry(tbl, animals, k) ==
    [species_name |-> tbl[k][2],
     count_of_animals |-> CountAnimals(animals, k)]

SpeciesORM_get_species(tbl, animals) ==
    LET entries == [k \in DOMAIN tbl |-> SpeciesORM_entry(tbl, animals, k)]
    IN Return(RowsOf(entries, DOMAIN tbl))

\* the fault C11 excludes: the entity listing grouped by species name
Species_get_species_ByName(tbl, animals) ==
    LET groups == [k \in NameGroups(tbl) |-> SpeciesDAO_group(tbl, animals, k)]
        records == RowsOf(groups, NameGroups(tbl))
    IN Return([i \in 1..Len(records) |-> SpeciesDAO_short(records[i])])

Species_get_species(tbl, animals) ==
    LET entries == [k \in DOMAIN tbl |->
                       [species_name |-> tbl[k][2],
                        count_of_animals |-> CountAnimals(animals, k)]]
    IN Return(RowsOf(entries, DOMAIN tbl))

SpeciesORM_get_species_inform(tbl, animals, id) ==
    LET sp == FirstById(tbl, id)
        rows == RowsOf(animals, AnimalsWhere(animals, "species_id", id))
    IN IF sp # NULL
       THEN Return(Some(Pair(SpeciesORM_deserialize(SpeciesEntity(sp[1]), TRUE),
                             [i \in 1..Len(rows) |->
                                 AnimalORM_short(AnimalEntity(rows[i]))])))
       ELSE Return(NULL)

\* the animals come in long form
Species_get_species_inform(tbl, animals, id) ==
    LET sp == FirstById(tbl, id)
        rows == RowsOf(animals, AnimalsWhere(animals, "species_id", id))
    IN IF sp # NULL
       THEN Return(Some(Pair(Species_deserialize(SpeciesEntity(sp[1]), TRUE),
                             [i \in 1..Len(rows) |->
                                 Animal_long(AnimalEntity(rows[i]))])))
       ELSE Return(NULL)

SpeciesORM_add_species(tbl, data) ==
    LET t == InsertRow(tbl, NextKey(tbl),
                 <<NextKey(tbl), data.name, data.description, data.price>>)
    IN [result |->
            Return(Some(SpeciesORM_deserialize(SpeciesEntity(t[NextKey(tbl)]),
                                               TRUE))),
        species |-> t]

get_species(impl, tbl, animals) ==
    CASE impl = "sql" -> SpeciesDAO_get_species(tbl, animals)
      [] impl = "orm" -> SpeciesORM_get_species(tbl, animals)
      [] impl = "entity" -> Species_get_species(tbl, animals)

get_species_inform(impl, tbl, animals, id) ==
    CASE impl = "sql" -> SpeciesDAO_get_species_inform(tbl, animals, id)
      [] impl = "orm" -> SpeciesORM_get_species_inform(tbl, animals, id)
      [] impl = "entity" -> Species_get_species_inform(tbl, animals, id)

\* the entity declares no add_species
add_species(impl, tbl, data) ==
    CASE impl = "sql" -> SpeciesDAO_add_species(tbl, data)
      [] impl = "orm" -> SpeciesORM_add_species(tbl, data)

(* ----------------------------- passwords ------------------------------ *)

\* werkzeug's salted one-way hash: the digest binds the salt and the password
generate_password_hash(password, salt) ==
    [salt |-> salt, digest |-> <<salt, password>>]

\* re-hash the candidate with the stored salt and compare the digests
check_password_hash(pwhash, password) ==
    pwhash.digest = <<pwhash.salt, password>>

(* ------------------------- centers, by component ---------------------- *)

\* the mapped entity of a center row <<id, login, password_hash, address>>
CenterEntity(row) ==
    [id |-> row[1], login |-> row[2], password_hash |-> row[3],
     address |-> row[4]]

AnimalCentersDAO_deserialize(record, long) ==
    IF long
    THEN [id |-> record.id, login |-> record.login,
          address |-> record.address]
    ELSE [id |-> record.id, login |-> record.login]

AnimalCenterORM_deserialize(record, long) ==
    IF long
    THEN [id |-> record.id, login |-> record.login,
          address |-> record.address]
    ELSE [id |-> record.id, login |-> record.login]

AnimalCenter_deserialize(self, long) ==
    IF long
    THEN [id |-> self.id, login |-> self.login, address |-> self.address]
    ELSE [id |-> self.id, login |-> self.login]

AnimalCentersDAO_get_center_inform(tbl, animals, id) ==
    LET record == FirstById(tbl, id)
        rows == RowsOf(animals, AnimalsWhere(animals, "center_id", id))
    IN IF record # NULL
       THEN Return(Some(Pair(
                AnimalCentersDAO_deserialize(CenterEntity(record[1]), TRUE),
                [i \in 1..Len(rows) |-> AnimalsDAO_short(rows[i])])))
       ELSE Return(NULL)

\* AnimalCenter declares no animals relationship: record.animals raises
AnimalCenterORM_get_center_inform(tbl, animals, id) ==
    LET record == FirstById(tbl, id)
    IN IF record # NULL THEN Raise("AttributeError") ELSE Return(NULL)

\* the long mapping alone, no animals
AnimalCenter_get_center_inform(tbl, animals, id) ==
    LET record == FirstById(tbl, id)
    IN IF record # NULL
       THEN Return(Some(AnimalCenter_deserialize(CenterEntity(record[1]),
                                                 TRUE)))
       ELSE Return(NULL)

get_center_inform(impl, tbl, animals, id) ==
    CASE impl = "sql" -> AnimalCentersDAO_get_center_inform(tbl, animals, id)
      [] impl = "orm" -> AnimalCenterORM_get_center_inform(tbl, animals, id)
      [] impl = "entity" -> AnimalCenter_get_center_inform(tbl, animals, id)

\* the hash of the row selected by user_id; no row, no attribute
AnimalCentersDAO_check_password(tbl, self, password, user_id) ==
    LET record == FirstById(tbl, user_id)
    IN IF record = NULL \/ record[1][3] = NULL THEN Raise("AttributeError")
       ELSE Return(check_password_hash(record[1][3][1], password))

AnimalCenterORM_check_password(tbl, self, password, user_id) ==
    LET record == FirstById(tbl, user_id)
    IN IF record = NULL \/ record[1][3] = NULL THEN Raise("AttributeError")
       ELSE Return(check_password_hash(record[1][3][1], password))

\* the hash of the instance the method is called on; user_id is not read
AnimalCenter_check_password(tbl, self, password, user_id) ==
    IF self.password_hash = NULL THEN Raise("AttributeError")
    ELSE Return(check_password_hash(self.password_hash[1], password))

check_password(impl, tbl, self, password, user_id) ==
    CASE impl = "sql" ->
            AnimalCentersDAO_check_password(tbl, self, password, user_id)
      [] impl = "orm" ->
            AnimalCenterORM_check_password(tbl, self, password, user_id)
      [] impl = "entity" ->
            AnimalCenter_check_password(tbl, self, password, user_id)

(* ---------------------- access requests, by component ----------------- *)

\* the fault C7 excludes: a center that has a row gets it re-stamped
\* instead of a new one
AccessRequestDAO_create_access_request_Upsert(tbl, user_id, now) ==
    IF \E k \in DOMAIN tbl : tbl[k][2] = Some(user_id)
    THEN [k \in DOMAIN tbl |->
             IF tbl[k][2] = Some(user_id)
             THEN <<k, Some(user_id), Some(now)>> ELSE tbl[k]]
    ELSE InsertRow(tbl, NextKey(tbl),
                   <<NextKey(tbl), Some(user_id), Some(now)>>)

\* INSERT with the center id and str(datetime.now()) read at now
AccessRequestDAO_create_access_request(tbl, user_id, now) ==
    InsertRow(tbl, NextKey(tbl), <<NextKey(tbl), Some(user_id), Some(now)>>)

\* the column default stamps the row when the commit flushes it, at now
AccessRequestORM_create_access_request(tbl, user_id, now) ==
    InsertRow(tbl, NextKey(tbl), <<NextKey(tbl), Some(user_id), Some(now)>>)

AccessRequest_create_access_request(tbl, user_id, now) ==
    InsertRow(tbl, NextKey(tbl), <<NextKey(tbl), Some(user_id), Some(now)>>)

create_access_request(impl, tbl, user_id, now) ==
    CASE impl = "sql" ->
            AccessRequestDAO_create_access_request(tbl, user_id, now)
      [] impl = "orm" ->
            AccessRequestORM_create_access_request(tbl, user_id, now)
      [] impl = "entity" ->
            AccessRequest_create_access_request(tbl, user_id, now)

(* ------------------------------- inputs ------------------------------- *)

AnimalIds == 1..MaxAnimalId
SpeciesIds == 1..MaxSpeciesId

\* the two registered centers, and an id no center has
UserIds == {1, 2}
CenterIds == {1, 2, 3}
Passwords == {"secret", "hunter2"}

\* data mappings of add_animal: description and price may be None
Rex ==
    [name |-> Some("Rex"), description |-> Some("friendly dog"),
     age |-> Some(3), species_id |-> Some(1), price |-> Some(100)]
Tom ==
    [name |-> Some("Tom"), description |-> NULL,
     age |-> Some(5), species_id |-> Some(2), price |-> Some(50)]
Kit ==
    [name |-> Some("Kit"), description |-> Some("kitten"),
     age |-> Some(1), species_id |-> Some(1), price |-> NULL]
AnimalData == {Rex, Tom, Kit}

\* partial field mappings of update_animal
UpdateFields ==
    {[price |-> Some(120)],
     [description |-> Some("shy"), age |-> Some(4)]}

\* data mappings of add_species; two of them share a name
Cat == [name |-> Some("cat"), description |-> Some("felis"), price |-> Some(10)]
Cat2 == [name |-> Some("cat"), description |-> NULL, price |-> Some(20)]
Dog == [name |-> Some("dog"), description |-> NULL, price |-> NULL]
SpeciesData == {Cat, Cat2, Dog}

\* a center object that was never loaded: AnimalCenter()
FreshCenter ==
    [id |-> 0, login |-> NULL, password_hash |-> NULL, address |-> NULL]

\* the long mapping a caller holds for animal id, with data_upd laid over it
Merged(tbl, id, data_upd) ==
    LET m == AnimalsDAO_deserialize(tbl[id], TRUE)
    IN [k \in DOMAIN m |-> IF k \in DOMAIN data_upd THEN data_upd[k] ELSE m[k]]

\* what a caller may pass as the first argument of update_animal; a held
\* mapping whose price is None is left out, the text 'None' in a numeric
\* column being stored by one engine and rejected by another
AnimalArgs(tbl, id, data_upd) ==
    {NULL, Some(data_upd), Some([id |-> id]), Some([id |-> id] @@ data_upd)}
    \cup (IF id \in DOMAIN tbl /\ Merged(tbl, id, data_upd).price # NULL
          THEN {Some(Merged(tbl, id, data_upd))} ELSE {})

(* ---------------------------- the state machine ----------------------- *)

Tables ==
    [animal |-> animal, species |-> species,
     animal_center |-> animal_center, access_request |-> access_request]

Called(op, impl, args, result) ==
    [op |-> op, impl |-> impl, args |-> args, result |-> result,
     pre |-> Tables]

Callers == {1, 2}

Init ==
    /\ animal = <<>>
    /\ species = <<>>
    /\ animal_center =
          <<
            <<1, Some("north"),
              Some(generate_password_hash("secret", "salt1")),
              Some("1 Elm St")>>,
            <<2, Some("south"),
              Some(generate_password_hash("hunter2", "salt2")),
              Some("2 Oak St")>>
          >>
    /\ access_request = <<>>
    /\ clock = 0
    /\ last = [op |-> "none", impl |-> "none", args |-> <<>>,
               result |-> Return(NULL),
               pre |-> [animal |-> <<>>, species |-> <<>>,
                        animal_center |-> <<>>, access_request |-> <<>>]]
    /\ pc = [p \in Callers |-> "idle"]
    /\ own = [p \in Callers |-> [kind |-> "none", key |-> 0]]
    /\ ret = [p \in Callers |-> Return(NULL)]

GetAnimal ==
    \E impl \in Impl, animal_id \in AnimalIds :
       /\ last' = Called("get_animal", impl, [animal_id |-> animal_id],
                         get_animal(impl, animal, animal_id))
       /\ UNCHANGED <<animal, species, animal_center, access_request, clock,
                      pc, own, ret>>

DeleteAnimal ==
    \E impl \in Impl, animal_id \in AnimalIds :
       LET out == delete_animal(impl, animal, animal_id)
       IN /\ animal' = out.animal
          /\ last' = Called("delete_animal", impl, [animal_id |-> animal_id],
                            out.result)
          /\ UNCHANGED <<species, animal_center, access_request, clock,
                         pc, own, ret>>

UpdateAnimal ==
    \E impl \in Impl, animal_id \in AnimalIds, data_upd \in UpdateFields :
       \E animal_arg \in (IF impl = "sql"
                          THEN AnimalArgs(animal, animal_id, data_upd)
                          ELSE {NULL}) :
          LET out == update_animal(impl, animal, animal_arg, data_upd,
                                   animal_id)
          IN /\ animal' = out.animal
             /\ last' = Called("update_animal", impl,
                               [animal |-> animal_arg, data_upd |-> data_upd,
                                animal_id |-> animal_id],
                               out.result)
             /\ UNCHANGED <<species, animal_center, access_request, clock,
                            pc, own, ret>>

\* add_animal of a mapping of D by a user of U while the table's keys stay
\* within n
AddAnimalUpTo(n, D, U) ==
    \E impl \in Impl, data \in D, userid \in U :
       LET out == add_animal(impl, animal, data, userid)
       IN /\ NextKey(animal) <= n
          /\ animal' = out.animal
          /\ last' = Called("add_animal", impl,
                            [data |-> data, userid |-> userid], out.result)
          /\ UNCHANGED <<species, animal_center, access_request, clock,
                         pc, own, ret>>

GetCenterInform ==
    \E impl \in Impl, id \in CenterIds :
       /\ last' = Called("get_center_inform", impl, [id |-> id],
                         get_center_inform(impl, animal_center, animal, id))
       /\ UNCHANGED <<animal, species, animal_center, access_request, clock,
                      pc, own, ret>>

CheckPassword ==
    \E impl \in Impl, password \in Passwords, user_id \in CenterIds :
       \E self \in (IF impl = "entity"
                    THEN {FreshCenter}
                         \cup {CenterEntity(animal_center[k]) :
                                  k \in DOMAIN animal_center}
                    ELSE {FreshCenter}) :
          /\ last' = Called("check_password", impl,
                            [self |-> self, password |-> password,
                             user_id |-> user_id],
                            check_password(impl, animal_center, self,
                                           password, user_id))
          /\ UNCHANGED <<animal, species, animal_center, access_request,
                         clock, pc, own, ret>>

GetSpecies ==
    \E impl \in Impl :
       /\ last' = Called("get_species", impl, <<>>,
                         get_species(impl, species, animal))
       /\ UNCHANGED <<animal, species, animal_center, access_request, clock,
                      pc, own, ret>>

GetSpeciesInform ==
    \E impl \in Impl, id \in SpeciesIds :
       /\ last' = Called("get_species_inform", impl, [id |-> id],
                         get_species_inform(impl, species, animal, id))
       /\ UNCHANGED <<animal, species, animal_center, access_request, clock,
                      pc, own, ret>>

\* add_species of a mapping of D while the table's keys stay within n
AddSpeciesUpTo(n, D) ==
    \E impl \in {"sql", "orm"}, data \in D :
       LET out == add_species(impl, species, data)
       IN /\ NextKey(species) <= n
          /\ species' = out.species
          /\ last' = Called("add_species", impl, [data |-> data], out.result)
          /\ UNCHANGED <<animal, animal_center, access_request, clock,
                         pc, own, ret>>

\* the call is made at called_at; the timestamp is read at now, not earlier
CreateAccessRequest ==
    \E impl \in Impl, user_id \in UserIds :
       \E called_at \in clock..MaxClock :
          \E now \in called_at..MaxClock :
             /\ Cardinality(DOMAIN access_request) < MaxRequests
             /\ access_request' =
                   create_access_request(impl, access_request, user_id, now)
             /\ clock' = now
             /\ last' = Called("create_access_request", impl,
                               [user_id |-> user_id, called_at |-> called_at],
                               Return(NULL))
             /\ UNCHANGED <<animal, species, animal_center, pc, own, ret>>

AddAnimal == AddAnimalUpTo(MaxAnimalId, AnimalData, UserIds)
AddSpecies == AddSpeciesUpTo(MaxSpeciesId, SpeciesData)
AddFirstAnimal == AddAnimalUpTo(1, {Rex}, {1})
AddFirstSpecies == AddSpeciesUpTo(1, {Cat})
\* animals of either species, all of one center
AddAnimalOfSpecies == AddAnimalUpTo(MaxAnimalId, {Rex, Tom}, {1})

\* every operation of the three components, on tables of at most one
\* animal and one species
Next ==
    \/ GetAnimal
    \/ DeleteAnimal
    \/ UpdateAnimal
    \/ AddFirstAnimal
    \/ GetCenterInform
    \/ CheckPassword
    \/ GetSpecies
    \/ GetSpeciesInform
    \/ AddFirstSpecies
    \/ CreateAccessRequest

Spec == Init /\ [][Next]_vars

\* the Animal capability
NextAnimal == GetAnimal \/ DeleteAnimal \/ UpdateAnimal \/ AddAnimal

SpecAnimal == Init /\ [][NextAnimal]_vars

\* the Animal Center capability over a changing animal table
NextCenter == AddAnimal \/ DeleteAnimal \/ GetCenterInform \/ CheckPassword

SpecCenter == Init /\ [][NextCenter]_vars

\* the Species capability over a changing animal table
NextSpecies ==
    \/ AddSpecies
    \/ AddAnimalOfSpecies
    \/ DeleteAnimal
    \/ GetSpecies
    \/ GetSpeciesInform

SpecSpecies == Init /\ [][NextSpecies]_vars

(* ------------------- two callers adding at the same time -------------- *)
(* Each statement sent to the database is one step; own[p] remembers the  *)
(* key the database gave to the row caller p inserted.                    *)

\* AnimalsDAO.add_animal, first statement: the INSERT
SqlAnimalInsert(p) ==
    \E data \in AnimalData, userid \in UserIds :
       LET out == AnimalsDAO_add_insert(animal, data, userid)
       IN /\ pc[p] = "idle"
          /\ animal' = out.animal
          /\ own' = [own EXCEPT ![p] = [kind |-> "sql_animal",
                                        key |-> NextKey(animal)]]
          /\ IF out.result.kind = "raise"
             THEN /\ pc' = [pc EXCEPT ![p] = "done"]
                  /\ ret' = [ret EXCEPT ![p] = out.result]
             ELSE /\ pc' = [pc EXCEPT ![p] = "sql_animal_select"]
                  /\ ret' = ret
          /\ UNCHANGED <<species, animal_center, access_request, clock, last>>

\* AnimalsDAO.add_animal, second statement: SELECT ... MAX(id)
SqlAnimalSelect(p) ==
    /\ pc[p] = "sql_animal_select"
    /\ ret' = [ret EXCEPT ![p] = AnimalsDAO_add_select(animal)]
    /\ pc' = [pc EXCEPT ![p] = "done"]
    /\ UNCHANGED <<animal, species, animal_center, access_request, clock,
                   last, own>>

\* SpeciesDAO.add_species, first statement: the INSERT
SqlSpeciesInsert(p) ==
    \E data \in SpeciesData :
       LET out == SpeciesDAO_add_insert(species, data)
       IN /\ pc[p] = "idle"
          /\ species' = out.species
          /\ own' = [own EXCEPT ![p] = [kind |-> "sql_species",
                                        key |-> NextKey(species)]]
          /\ IF out.result.kind = "raise"
             THEN /\ pc' = [pc EXCEPT ![p] = "done"]
                  /\ ret' = [ret EXCEPT ![p] = out.result]
             ELSE /\ pc' = [pc EXCEPT ![p] = "sql_species_select"]
                  /\ ret' = ret
          /\ UNCHANGED <<animal, animal_center, access_request, clock, last>>

\* SpeciesDAO.add_species, second statement: SELECT ... MAX(id)
SqlSpeciesSelect(p) ==
    /\ pc[p] = "sql_species_select"
    /\ ret' = [ret EXCEPT ![p] = SpeciesDAO_add_select(species)]
    /\ pc' = [pc EXCEPT ![p] = "done"]
    /\ UNCHANGED <<animal, species, animal_center, access_request, clock,
                   last, own>>

\* AnimalORM.add_animal up to the commit
OrmAnimalCommit(p) ==
    \E data \in AnimalData, userid \in UserIds :
       /\ pc[p] = "idle"
       /\ animal' = AnimalORM_add_commit(animal, data, userid)
       /\ own' = [own EXCEPT ![p] = [kind |-> "orm_animal",
                                     key |-> NextKey(animal)]]
       /\ pc' = [pc EXCEPT ![p] = "orm_animal_return"]
       /\ UNCHANGED <<species, animal_center, access_request, clock, last,
                      ret>>

\* AnimalORM.add_animal: return self.deserialize(animal)
OrmAnimalReturn(p) ==
    /\ pc[p] = "orm_animal_return"
    /\ ret' = [ret EXCEPT ![p] = AnimalORM_add_return(animal, own[p].key)]
    /\ pc' = [pc EXCEPT ![p] = "done"]
    /\ UNCHANGED <<animal, species, animal_center, access_request, clock,
                   last, own>>

NextConc ==
    \E p \in Callers :
       \/ SqlAnimalInsert(p)
       \/ SqlAnimalSelect(p)
       \/ SqlSpeciesInsert(p)
       \/ SqlSpeciesSelect(p)
       \/ OrmAnimalCommit(p)
       \/ OrmAnimalReturn(p)

SpecConc == Init /\ [][NextConc]_vars

(* ------------------------------- claims ------------------------------- *)

\* the elements of a returned list, as a set
Elems(seq) == {seq[i] : i \in 1..Len(seq)}

\* C1: get animal returns the long-form mapping of the row with the
\* requested id when that row exists, and None, without raising, when it
\* does not, in each of the three components.
C1_GetAnimalFoundOrNone ==
    last.op = "get_animal" =>
       LET id == last.args.animal_id
       IN IF id \in DOMAIN animal
          THEN /\ last.result = Return(Some(AnimalEntity(animal[id])))
               /\ last.result.value[1].id = id
          ELSE last.result = Return(NULL)

\* C2: delete animal with an id no row has completes without raising and
\* leaves every table as it was; with an existing id it removes that row
\* and no other, in each of the three components.
C2_DeleteAnimalExact ==
    last.op = "delete_animal" =>
       /\ last.result.kind = "return"
       /\ animal = DeleteRow(last.pre.animal, last.args.animal_id)
       /\ species = last.pre.species
       /\ animal_center = last.pre.animal_center
       /\ access_request = last.pre.access_request

\* C3: update animal called with a partial field mapping and the id of an
\* existing animal sets exactly the named fields of that row to the given
\* values and leaves its other fields and every other row unchanged, in
\* each of the three components.
C3_UpdateAnimalExact ==
    (last.op = "update_animal"
        /\ last.args.animal_id \in DOMAIN last.pre.animal) =>
       LET id == last.args.animal_id
           old == AnimalEntity(last.pre.animal[id])
       IN animal = [last.pre.animal EXCEPT
                       ![id] = AnimalRow(SetAttrs(old, last.args.data_upd))]

\* C4: add animal(data, u) returns a mapping whose id is the key of a row
\* that was not there before, the table grows by that one row, and get
\* animal on that id then returns the submitted name, description, age,
\* species_id and price with center_id u.
C4_AddGetRoundTrip ==
    last.op = "add_animal" =>
       /\ last.result.kind = "return"
       /\ last.result.value # NULL
       /\ LET id == last.result.value[1].id
              data == last.args.data
          IN /\ id \notin DOMAIN last.pre.animal
             /\ DOMAIN animal = DOMAIN last.pre.animal \cup {id}
             /\ \A k \in DOMAIN last.pre.animal :
                   animal[k] = last.pre.animal[k]
             /\ get_animal(last.impl, animal, id) =
                   Return(Some([id |-> id, name |-> data.name,
                                center_id |-> Some(last.args.userid),
                                description |-> data.description,
                                age |-> data.age,
                                species_id |-> data.species_id,
                                price |-> data.price]))

\* C5: get center detail for an existing center c returns the pair of the
\* long-form center mapping with id c and exactly the short-form mappings
\* of the animals whose center_id is c; for an id no center has it returns
\* None; in each of the three components.
C5_CenterDetailPair ==
    last.op = "get_center_inform" =>
       LET c == last.args.id
           mine == AnimalsWhere(animal, "center_id", c)
       IN IF c \in DOMAIN animal_center
          THEN /\ last.result.kind = "return"
               /\ last.result.value # NULL
               /\ LET v == last.result.value[1]
                  IN /\ DOMAIN v = {"fst", "snd"}
                     /\ v.fst = [id |-> c, login |-> animal_center[c][2],
                                 address |-> animal_center[c][4]]
                     /\ Len(v.snd) = Cardinality(mine)
                     /\ Elems(v.snd) =
                           {[id |-> k, name |-> animal[k][3]] : k \in mine}
          ELSE last.result = Return(NULL)

\* C6: the species listing has, for every species row, an entry with that
\* species' name whose count_of_animals is the number of animals whose
\* species_id is that species' id, 0 included.
C6_SpeciesListingCounts ==
    last.op = "get_species" =>
       /\ last.result.kind = "return"
       /\ \A k \in DOMAIN species :
             [species_name |-> species[k][2],
              count_of_animals |->
                 Cardinality(AnimalsWhere(animal, "species_id", k))]
                \in Elems(last.result.value)

\* C7: access requests are append-only: create access request with center
\* id c adds exactly one new row with center_id c and a timestamp at or
\* after the instant of the call, also when c already has a row, and no
\* operation changes or removes an existing row or adds one otherwise.
C7_AccessRequestsAppendOnly ==
    /\ \A k \in DOMAIN last.pre.access_request :
          /\ k \in DOMAIN access_request
          /\ access_request[k] = last.pre.access_request[k]
    /\ last.op = "create_access_request" =>
          \E k \in DOMAIN access_request :
             /\ k \notin DOMAIN last.pre.access_request
             /\ DOMAIN access_request =
                   DOMAIN last.pre.access_request \cup {k}
             /\ access_request[k][2] = Some(last.args.user_id)
             /\ access_request[k][3] # NULL
             /\ access_request[k][3][1] >= last.args.called_at
    /\ last.op # "create_access_request" =>
          access_request = last.pre.access_request

\* C7 witness: a second request of the same center was created, later than
\* the first, and both rows are there
C7_RepeatedRequestKept ==
    /\ last.op = "create_access_request"
    /\ Cardinality(DOMAIN access_request) = 2
    /\ \E k \in DOMAIN last.pre.access_request :
          /\ last.pre.access_request[k][2] = Some(last.args.user_id)
          /\ access_request[k] = last.pre.access_request[k]

\* C8: check password(password, id) returns true exactly when the
\* plaintext matches the hash stored in the center row with that id, so
\* false when it matches only another center's hash, in each of the three
\* components.
C8_CheckPasswordById ==
    (last.op = "check_password" /\ last.result.kind = "return") =>
       LET id == last.args.user_id
       IN last.result.value =
             (/\ id \in DOMAIN animal_center
              /\ check_password_hash(animal_center[id][3][1],
                                     last.args.password))

\* C9: species detail for an existing species id returns the pair of the
\* long-form species mapping (id, name, description, price) and the
\* animals whose species_id is that id, the empty sequence when there are
\* none; it returns None exactly when no species row has the id.
C9_SpeciesDetailPair ==
    last.op = "get_species_inform" =>
       LET id == last.args.id
           mine == AnimalsWhere(animal, "species_id", id)
       IN IF id \in DOMAIN species
          THEN /\ last.result.kind = "return"
               /\ last.result.value # NULL
               /\ LET v == last.result.value[1]
                  IN /\ DOMAIN v = {"fst", "snd"}
                     /\ v.fst = SpeciesEntity(species[id])
                     /\ Len(v.snd) = Cardinality(mine)
                     /\ {v.snd[i].id : i \in 1..Len(v.snd)} = mine
                     /\ \A i \in 1..Len(v.snd) :
                           v.snd[i].name = animal[v.snd[i].id][3]
          ELSE last.result = Return(NULL)

\* C9 witness: a species no animal references, in a table that has animals,
\* was looked up and came back paired with the empty sequence
C9_SpeciesWithoutAnimals ==
    /\ last.op = "get_species_inform"
    /\ last.args.id \in DOMAIN species
    /\ DOMAIN animal # {}
    /\ AnimalsWhere(animal, "species_id", last.args.id) = {}
    /\ last.result.value # NULL
    /\ last.result.value[1].snd = <<>>

\* C10: the ORM add, which serializes the object it inserted, returns its
\* own row in every interleaving of two concurrent adds (the raw-SQL add,
\* INSERT then SELECT of MAX(id), can return the other caller's row: the
\* witness).
C10_OrmAddReturnsOwnRow ==
    \A p \in Callers :
       (pc[p] = "done" /\ own[p].kind = "orm_animal") =>
          /\ ret[p].kind = "return"
          /\ ret[p].value # NULL
          /\ ret[p].value[1] = [id |-> own[p].key,
                                name |-> animal[own[p].key][3]]

\* C10 witness: a raw-SQL add returned the row the other caller inserted,
\* while that caller's ORM add, committed between the two raw statements,
\* returned its own
C10_SqlAddReturnsOtherRow ==
    \E p \in Callers, q \in Callers :
       /\ pc[p] = "done" /\ pc[q] = "done"
       /\ own[p].kind = "sql_animal" /\ own[q].kind = "orm_animal"
       /\ ret[p].kind = "return" /\ ret[q].kind = "return"
       /\ ret[p].value[1].id = own[q].key
       /\ ret[q].value[1].id = own[q].key
       /\ own[p].key # own[q].key

\* C10, the species table: a raw-SQL add_species returned the row the other
\* caller inserted
C10_SqlSpeciesAddReturnsOtherRow ==
    \E p \in Callers :
       /\ pc[p] = "done" /\ own[p].kind = "sql_species"
       /\ ret[p].kind = "return"
       /\ ret[p].value[1].id # own[p].key

\* two species rows with different ids carry the same name
SharedName == \E j \in DOMAIN species, k \in DOMAIN species :
                 j # k /\ species[j][2] = species[k][2]

\* the species rows named as species k is
SameNamed(k) == {j \in DOMAIN species : species[j][2] = species[k][2]}

\* the number of animals that reference a species of keys
AnimalsOfAll(keys) ==
    Cardinality({a \in DOMAIN animal :
                    \E j \in keys : animal[a][AnimalCol.species_id] = Some(j)})

\* the listing entry species k has when every species row is counted alone
OwnEntry(k) ==
    [species_name |-> species[k][2],
     count_of_animals |-> AnimalsOfAll({k})]

\* list has one entry per species name, counting the animals of all the
\* species of that name
MergedByName(list) ==
    /\ \A i \in 1..Len(list) :
          \E k \in DOMAIN species : list[i].species_name = species[k][2]
    /\ \A k \in DOMAIN species :
          /\ Cardinality({i \in 1..Len(list) :
                             list[i].species_name = species[k][2]}) = 1
          /\ [species_name |-> species[k][2],
              count_of_animals |-> AnimalsOfAll(SameNamed(k))] \in Elems(list)

\* list has one entry per species row, with that row's own count
OnePerId(list) ==
    /\ Len(list) = Cardinality(DOMAIN species)
    /\ \A k \in DOMAIN species :
          Cardinality({i \in 1..Len(list) : list[i] = OwnEntry(k)}) =
             Cardinality({j \in DOMAIN species : OwnEntry(j) = OwnEntry(k)})

\* C11 as stated: when two species rows share a name, the raw-SQL and the
\* entity listing both return one merged entry for that name, counting the
\* animals of both, and the ORM-DAO listing returns one entry per species
\* id with that species' own count.
C11_EntityMergesByName ==
    (last.op = "get_species" /\ SharedName) =>
       /\ last.result.kind = "return"
       /\ IF last.impl \in {"sql", "entity"}
          THEN MergedByName(last.result.value)
          ELSE OnePerId(last.result.value)

\* C11 amended: when two species rows share a name, only the raw-SQL
\* listing returns one merged entry for that name, counting the animals of
\* both; the ORM-DAO and the entity listing both return one entry per
\* species id with that species' own count.
C11_OnlySqlMergesByName ==
    (last.op = "get_species" /\ SharedName) =>
       /\ last.result.kind = "return"
       /\ IF last.impl = "sql"
          THEN MergedByName(last.result.value)
          ELSE OnePerId(last.result.value)

\* C11 witness: the entity listing of two species of one name, each with an
\* animal, came back as two entries of count 1
C11_EntityListsSameNameTwice ==
    /\ last.op = "get_species"
    /\ last.impl = "entity"
    /\ SharedName
    /\ \A k \in DOMAIN species : AnimalsOfAll({k}) = 1
    /\ Len(last.result.value) = 2
    /\ \A i \in 1..2 : last.result.value[i].count_of_animals = 1

\* C11, the raw-SQL side: the same table listed as one entry of count 2
C11_SqlListsSameNameOnce ==
    /\ last.op = "get_species"
    /\ last.impl = "sql"
    /\ SharedName
    /\ \A k \in DOMAIN species : AnimalsOfAll({k}) = 1
    /\ Len(last.result.value) = 1
    /\ last.result.value[1].count_of_animals = 2

====
